---------------------------- MODULE Spec2Model ----------------------------
(***************************************************************************)
(* A model of src/src/scheduler.ts, class Scheduler: the client-side       *)
(* helper of the OAK "automation time" pallet.                             *)
(*                                                                         *)
(* JavaScript numbers.  Date.now() and millisecond timestamps are about    *)
(* 1.7 * 10^12 and the unit threshold of convertToSeconds is 10^11; both   *)
(* are beyond the integers TLC computes with.  A number is therefore held  *)
(* in three limbs of radix MS_IN_SEC (1000):                               *)
(*      [th, u, m]  stands for  th * 1000 + u + m / 1000                   *)
(* with 0 <= u < 1000 and 0 <= m < 1000.  Integers have m = 0; the only    *)
(* fractions the program produces are those of x / 1000 for an integer x,  *)
(* which are exact in thousandths.                                         *)
(***************************************************************************)
EXTENDS Integers, Sequences, FiniteSets, TLC

\* ./constants (imported at scheduler.ts:8-16)
SEC_IN_MIN == 60
MIN_IN_HOUR == 60
MS_IN_SEC == 1000
RECURRING_TASK_LIMIT == 24
LOWEST_TRANSFERRABLE_AMOUNT == 1000000000

\* OakChains and OakChainSchedulingLimit[chain], in milliseconds
\* (7 days and 180 days), as numbers of thousands.
OakChains == {"STUR", "NEU"}
OakChainSchedulingLimit(c) ==
    IF c = "STUR" THEN [th |-> 7 * 24 * 3600, u |-> 0, m |-> 0]
                  ELSE [th |-> 180 * 24 * 3600, u |-> 0, m |-> 0]

---------------------------------------------------------------------------
\* JavaScript number arithmetic on the limb representation

\* the number n, for an n TLC can hold
JsInt(n) == [th |-> n \div MS_IN_SEC, u |-> n % MS_IN_SEC, m |-> 0]

\* a < b
JsLT(a, b) ==
    \/ a.th < b.th
    \/ a.th = b.th /\ a.u < b.u
    \/ a.th = b.th /\ a.u = b.u /\ a.m < b.m

\* a > b
JsGT(a, b) == JsLT(b, a)

\* a + b
JsAdd(a, b) ==
    LET m == a.m + b.m
        u == a.u + b.u + (m \div MS_IN_SEC)
    IN  [th |-> a.th + b.th + (u \div MS_IN_SEC), u |-> u % MS_IN_SEC, m |-> m % MS_IN_SEC]

\* a - b, for a >= b
JsSub(a, b) ==
    LET m == a.m - b.m
        bm == IF m < 0 THEN 1 ELSE 0
        u == a.u - b.u - bm
        bu == IF u < 0 THEN 1 ELSE 0
    IN  [th |-> a.th - b.th - bu, u |-> u + bu * MS_IN_SEC, m |-> m + bm * MS_IN_SEC]

\* a % n for a >= 0 and an integer n > 0 (the fraction of a is kept, as in JS)
JsMod(a, n) ==
    IF n % MS_IN_SEC = 0
    THEN [th |-> a.th % (n \div MS_IN_SEC), u |-> a.u, m |-> a.m]
    ELSE LET v == ((a.th % n) * MS_IN_SEC + a.u) % n
         IN  [th |-> v \div MS_IN_SEC, u |-> v % MS_IN_SEC, m |-> a.m]

\* a / 1000 for an integer a: exact, the units of a become thousandths
JsDiv1000(a) == [th |-> a.th \div MS_IN_SEC, u |-> a.th % MS_IN_SEC, m |-> a.u]

\* a * 1000 for an integer a
JsMul1000(a) == [th |-> a.th * MS_IN_SEC + a.u, u |-> 0, m |-> 0]

JsZero == JsInt(0)

\* x is an integer, x is a whole multiple of n
JsIsInteger(a) == a.m = 0
JsIsMultiple(a, n) == JsMod(a, n) = JsZero

---------------------------------------------------------------------------
\* The pure methods

\* the callback of _.map with the threshold itself taken for milliseconds
ConvertOneInclusive(startTimestamp) ==
    LET isMillisecond == ~JsLT(startTimestamp, [th |-> 100000000, u |-> 0, m |-> 0])
    IN  IF isMillisecond THEN JsDiv1000(startTimestamp) ELSE startTimestamp

\* convertToSeconds, the callback of _.map (scheduler.ts:58-62)
ConvertOne(startTimestamp) ==
    LET isMillisecond == JsGT(startTimestamp, [th |-> 100000000, u |-> 0, m |-> 0])
    IN  IF isMillisecond THEN JsDiv1000(startTimestamp) ELSE startTimestamp

convertToSeconds(startTimestamps) ==
    [i \in 1..Len(startTimestamps) |-> ConvertOne(startTimestamps[i])]

\* the smallest hour-aligned instant, in seconds, at or after currentTime
\* (milliseconds)
NextFullHour(currentTime) ==
    IF JsIsMultiple(currentTime, SEC_IN_MIN * MIN_IN_HOUR * MS_IN_SEC)
    THEN JsDiv1000(currentTime)
    ELSE JsDiv1000(JsAdd(JsSub(currentTime,
                               JsMod(currentTime, SEC_IN_MIN * MIN_IN_HOUR * MS_IN_SEC)),
                         JsInt(SEC_IN_MIN * MIN_IN_HOUR * MS_IN_SEC)))

\* nextAvailableHour of validateTimestamps (scheduler.ts:121-122)
nextAvailableHour(currentTime) ==
    JsDiv1000(JsAdd(JsSub(currentTime,
                          JsMod(currentTime, SEC_IN_MIN * MIN_IN_HOUR * MS_IN_SEC)),
                    JsInt(SEC_IN_MIN * MIN_IN_HOUR * MS_IN_SEC)))

\* the callback of _.forEach with the alignment test made first
CheckTimestampAlignmentFirst(timestamp, currentTime, schedulingTimeLimit) ==
    IF JsMod(timestamp, SEC_IN_MIN * MIN_IN_HOUR) # JsZero THEN "NotHourAligned"
    ELSE IF JsLT(timestamp, nextAvailableHour(currentTime)) THEN "TimestampInPast"
    ELSE IF JsGT(timestamp, JsAdd(currentTime, schedulingTimeLimit)) THEN "TooFarInFuture"
    ELSE "ok"

\* the callback of _.forEach (scheduler.ts:123-127): the error it throws for
\* one timestamp, or "ok"
CheckTimestamp(timestamp, currentTime, schedulingTimeLimit) ==
    IF JsLT(timestamp, nextAvailableHour(currentTime)) THEN "TimestampInPast"
    ELSE IF JsMod(timestamp, SEC_IN_MIN * MIN_IN_HOUR) # JsZero THEN "NotHourAligned"
    ELSE IF JsGT(timestamp, JsAdd(currentTime, schedulingTimeLimit)) THEN "TooFarInFuture"
    ELSE "ok"

\* a loop that goes on after a failure and reports the last one
RECURSIVE ForEachTimestampLast(_, _, _, _)
ForEachTimestampLast(timestamps, i, currentTime, schedulingTimeLimit) ==
    IF i > Len(timestamps) THEN "ok"
    ELSE LET e == CheckTimestamp(timestamps[i], currentTime, schedulingTimeLimit)
             rest == ForEachTimestampLast(timestamps, i + 1, currentTime, schedulingTimeLimit)
         IN  IF rest # "ok" THEN rest ELSE e

\* _.forEach from index i on: the first throw ends the loop
RECURSIVE ForEachTimestamp(_, _, _, _)
ForEachTimestamp(timestamps, i, currentTime, schedulingTimeLimit) ==
    IF i > Len(timestamps) THEN "ok"
    ELSE LET e == CheckTimestamp(timestamps[i], currentTime, schedulingTimeLimit)
         IN  IF e # "ok" THEN e
             ELSE ForEachTimestamp(timestamps, i + 1, currentTime, schedulingTimeLimit)

\* the length test with the limit itself refused
TooManyTimestampsOffByOne(timestamps) == Len(timestamps) >= RECURRING_TASK_LIMIT

\* the length test of validateTimestamps (scheduler.ts:118)
TooManyTimestamps(timestamps) == Len(timestamps) > RECURRING_TASK_LIMIT

\* validateTimestamps (scheduler.ts:117-128) with Date.now() = currentTime:
\* the error thrown, or "ok".  The messages thrown are
\*   TooManyTasks     'Recurring Task length cannot exceed 24'
\*   TimestampInPast  'Scheduled timestamp in the past'
\*   NotHourAligned   'Timestamp is not an hour timestamp'
\*   TooFarInFuture   'Timestamp too far in future'
validateTimestamps(timestamps, currentTime, schedulingTimeLimit) ==
    IF TooManyTimestamps(timestamps) THEN "TooManyTasks"
    ELSE ForEachTimestamp(timestamps, 1, currentTime, schedulingTimeLimit)

\* the two tests of validateTransferParams in the other order
validateTransferParamsSelfFirst(amount, sendingAddress, receivingAddress) ==
    IF sendingAddress = receivingAddress THEN "SelfTransferNotAllowed"
    ELSE IF amount < LOWEST_TRANSFERRABLE_AMOUNT THEN "AmountTooLow"
    ELSE "ok"

\* validateTransferParams (scheduler.ts:136-139): 'Amount too low', 'Cannot send to self'
validateTransferParams(amount, sendingAddress, receivingAddress) ==
    IF amount < LOWEST_TRANSFERRABLE_AMOUNT THEN "AmountTooLow"
    ELSE IF sendingAddress = receivingAddress THEN "SelfTransferNotAllowed"
    ELSE "ok"

---------------------------------------------------------------------------
\* Bounds of the model

\* calls made on the client in one run
MaxCalls == 2
\* free leading timestamps of a sequence given to the pure methods
MaxHead == 2

\* the callers in flight at the same time (promise chains on one event loop)
Procs == {1, 2}

\* Date.now(): an instant on an hour boundary (1700002800 s is a multiple
\* of 3600) and instants 1 ms, half an hour and one hour less 1 ms after it
NowBase == [th |-> 1700002800, u |-> 0, m |-> 0]
NowValues == {JsAdd(NowBase, JsInt(d)) : d \in {0, 1, 1800000, 3599999}}

Addresses == {"addrA", "addrB"}
ProvidedIDs == {1, 2}
Amounts == {LOWEST_TRANSFERRABLE_AMOUNT - 1, LOWEST_TRANSFERRABLE_AMOUNT,
            LOWEST_TRANSFERRABLE_AMOUNT + 1}

HourSec == JsInt(SEC_IN_MIN * MIN_IN_HOUR)

\* Timestamps around the instants the rules turn on, for Date.now() = now and
\* the horizon limit: in seconds and in milliseconds, and at the unit threshold
SecondValues(now, limit) ==
    LET nh == nextAvailableHour(now)
    IN  { JsSub(nh, HourSec), JsSub(nh, JsInt(1)), nh, JsAdd(nh, JsInt(1)),
          JsAdd(nh, HourSec),
          JsAdd(JsAdd(nh, JsDiv1000(limit)), HourSec) }
MillisecondValues(now, limit) ==
    LET nh == JsMul1000(nextAvailableHour(now))
    IN  { nh, JsSub(nh, JsMul1000(HourSec)), JsAdd(nh, HourSec),
          JsAdd(now, limit), JsAdd(JsAdd(now, limit), JsInt(1)),
          JsAdd(nh, limit) }
ThresholdValues ==
    { [th |-> 100000000, u |-> 0, m |-> 0], [th |-> 100000000, u |-> 800, m |-> 0] }
TimestampValues(now, limit) ==
    SecondValues(now, limit) \cup MillisecondValues(now, limit) \cup ThresholdValues

\* the sequence of n copies of v
Repeat(v, n) == [i \in 1..n |-> v]

\* up to MaxHead free timestamps, then copies of one more up to the length
\* limit and one past it
TimestampInputs(now, limit) ==
    LET V == TimestampValues(now, limit)
        heads == UNION { [1..n -> V] : n \in 0..MaxHead }
    IN  heads \cup
        { h \o Repeat(v, n - Len(h)) :
            h \in { x \in heads : Len(x) <= 1 }, v \in SecondValues(now, limit),
            n \in {RECURRING_TASK_LIMIT - 1, RECURRING_TASK_LIMIT, RECURRING_TASK_LIMIT + 1} }

---------------------------------------------------------------------------
\* State

VARIABLES
    chain,                 \* this.chain
    schedulingTimeLimit,   \* this.schedulingTimeLimit
    api,                   \* this.api: 0 is undefined, n > 0 the n-th ApiPromise created
    handles,               \* ApiPromise instances created so far
    calls,                 \* calls started so far
    proc,                  \* proc[p]: the call caller p has in flight
    vpc, vin, vout         \* a call of one pure method: its step, arguments, result

vars == <<chain, schedulingTimeLimit, api, handles, calls, proc, vpc, vin, vout>>
clientVars == <<chain, schedulingTimeLimit, api, handles, calls, proc>>
pureVars == <<vpc, vin, vout>>

NoEvent == [type |-> "none", dispatchError |-> "nil"]
NoExtrinsic == [method |-> "none", providedID |-> 0, timestamps |-> <<>>,
                receivingAddress |-> "", amount |-> 0, message |-> "",
                address |-> "", nonce |-> 0]

IdleProc ==
    [ op |-> "none", pc |-> "idle",
      \* arguments
      address |-> "", providedID |-> 0, timestamps |-> <<>>, receivingAddress |-> "",
      amount |-> 0, extrinsicHex |-> 0, handleDispatch |-> "nil", result |-> NoEvent,
      \* locals
      currentTime |-> JsZero, secondTimestamps |-> <<>>, polkadotApi |-> 0,
      \* what the call did outside the client: "connect", "rpc", "sign"
      io |-> {},
      \* outcome
      err |-> "none", signedExtrinsic |-> NoExtrinsic, hash |-> 0, taskId |-> 0,
      \* the status subscription, the status callback and the error it threw,
      \* the events the callback was called with, the console, the events given
      \* to handleDispatch, the last status the chain gave the transaction
      sub |-> "none", cb |-> "none", cbErr |-> "none", events |-> <<>>, log |-> <<>>,
      seen |-> <<>>, chainStatus |-> NoEvent ]

PureIdle == [method |-> "none", timestamps |-> <<>>, currentTime |-> JsZero, amount |-> 0,
             sendingAddress |-> "", receivingAddress |-> ""]
PureNone == [error |-> "none", seconds |-> <<>>]

\* constructor (scheduler.ts:24-28); this.api is not assigned
InitClient ==
    /\ chain \in OakChains
    /\ schedulingTimeLimit = OakChainSchedulingLimit(chain)
    /\ api = 0
    /\ handles = 0
    /\ calls = 0
    /\ proc = [p \in Procs |-> IdleProc]

---------------------------------------------------------------------------
\* Arguments the callers pass

\* Date.now() at a build: on an hour boundary, and half an hour past it
CallNowValues == {NowBase, JsAdd(NowBase, JsInt(1800000))}

\* schedules given to the builders: admissible ones, one breaking each rule,
\* and two the rules let through (a past instant in milliseconds, an instant
\* in seconds beyond the horizon)
CallTimestampInputs(now, limit) ==
    LET nh == nextAvailableHour(now)
    IN  { <<nh>>,
          <<nh, JsAdd(nh, HourSec)>>,
          <<JsMul1000(JsAdd(nh, HourSec))>>,
          Repeat(nh, RECURRING_TASK_LIMIT + 1),
          <<JsSub(nh, HourSec)>>,
          <<JsAdd(nh, JsInt(1))>>,
          <<JsAdd(JsMul1000(nh), limit)>>,
          <<JsSub(JsMul1000(nh), JsMul1000(HourSec))>>,
          <<JsAdd(JsAdd(nh, JsDiv1000(limit)), HourSec)>> }

\* schedules given to the transfer builder: an admissible one, one in the
\* past, one the rules let through
TransferTimestampInputs(now, limit) ==
    LET nh == nextAvailableHour(now)
    IN  { <<nh>>, <<JsSub(nh, HourSec)>>, <<JsSub(JsMul1000(nh), JsMul1000(HourSec))>> }

CallAmounts == {LOWEST_TRANSFERRABLE_AMOUNT - 1, LOWEST_TRANSFERRABLE_AMOUNT}

\* signed extrinsics handed to sendExtrinsic, as opaque byte strings
HexInputs == {1, 2}

\* status events: status.type and the kind of dispatchError carried
StatusRank(t) ==
    CASE t = "none" -> 0 [] t = "Broadcast" -> 1 [] t = "InBlock" -> 2 [] t = "Finalized" -> 3
Events ==
    { [type |-> "Broadcast", dispatchError |-> "nil"],
      [type |-> "InBlock", dispatchError |-> "nil"],
      [type |-> "InBlock", dispatchError |-> "module"],
      [type |-> "Finalized", dispatchError |-> "nil"],
      [type |-> "Finalized", dispatchError |-> "module"],
      [type |-> "Finalized", dispatchError |-> "other"] }

\* txObject.hash of the decoded extrinsic bytes (a digest of the bytes)
TxHash(extrinsicHex) == 1000 + ((extrinsicHex * 7919) % 997)

---------------------------------------------------------------------------
\* getAPIClient (scheduler.ts:30-55)

\* extrinsic.signAsync(address, {signer, nonce: -1}) is called
\* (scheduler.ts:189-193, 221-230, 242-246)
SignAsync(r) ==
    [r EXCEPT !.pc = "signing", !.io = @ \cup {"sign"}]

\* polkadotApi.tx(extrinsicHex) and txObject.send(callback) (scheduler.ts:153-154):
\* the extrinsic is submitted and its status stream subscribed to
TxSend(r) ==
    [r EXCEPT !.pc = "subscribing", !.sub = "open", !.io = @ \cup {"rpc"}]

\* polkadotApi.rpc.automationTime.generateTaskId (scheduler.ts:107)
GenerateTaskId(r) ==
    [r EXCEPT !.pc = "rpc", !.io = @ \cup {"rpc"}]

\* what a call does once it holds the client
WithClient(r) ==
    CASE r.op \in {"buildScheduleNotifyExtrinsic", "buildScheduleNativeTransferExtrinsic",
                   "buildCancelTaskExtrinsic"} -> SignAsync(r)
      [] r.op = "sendExtrinsic" -> TxSend(r)
      [] r.op = "getTaskID" -> GenerateTaskId(r)

\* getAPIClient up to its await (scheduler.ts:31-32), run by a call that
\* needs the client: with this.api undefined ApiPromise.create is started and
\* the call waits for it; otherwise the call goes on with this.api.
GetAPIClient(r) ==
    IF api = 0
    THEN [r EXCEPT !.pc = "connecting", !.io = @ \cup {"connect"}]
    ELSE WithClient([r EXCEPT !.polkadotApi = api])

Start(p, r) ==
    /\ proc[p].pc = "idle"
    /\ calls < MaxCalls
    /\ calls' = calls + 1
    /\ proc' = [proc EXCEPT ![p] = r]

\* the validation a schedule build starts with, and the error it throws
\* (scheduler.ts:186, 217-218)
NotifyValidation(timestamps, currentTime) ==
    validateTimestamps(timestamps, currentTime, schedulingTimeLimit)

\* the transfer build without its call of validateTransferParams
TransferValidationTimestampsOnly(timestamps, currentTime, amount, address, receivingAddress) ==
    validateTimestamps(timestamps, currentTime, schedulingTimeLimit)

TransferValidation(timestamps, currentTime, amount, address, receivingAddress) ==
    LET e == validateTimestamps(timestamps, currentTime, schedulingTimeLimit)
    IN  IF e # "ok" THEN e
        ELSE validateTransferParams(amount, address, receivingAddress)

\* a throw before the first await rejects the promise of the call
Reject(r, e) == [r EXCEPT !.pc = "done", !.err = e]

\* buildScheduleNotifyExtrinsic up to its first await (scheduler.ts:179-188)
BuildScheduleNotifyExtrinsic(p) ==
    \E address \in {"addrA"}, currentTime \in CallNowValues :
    \E timestamps \in CallTimestampInputs(currentTime, schedulingTimeLimit) :
        LET r == [IdleProc EXCEPT !.op = "buildScheduleNotifyExtrinsic",
                                  !.address = address, !.providedID = 1,
                                  !.timestamps = timestamps, !.currentTime = currentTime]
            e == NotifyValidation(timestamps, currentTime)
        IN  /\ Start(p, IF e # "ok" THEN Reject(r, e)
                        ELSE GetAPIClient([r EXCEPT !.secondTimestamps = convertToSeconds(timestamps)]))
            /\ UNCHANGED <<chain, schedulingTimeLimit, api, handles, pureVars>>

\* buildScheduleNativeTransferExtrinsic up to its first await (scheduler.ts:209-220)
BuildScheduleNativeTransferExtrinsic(p) ==
    \E address \in {"addrA"}, receivingAddress \in Addresses, amount \in CallAmounts,
       currentTime \in {JsAdd(NowBase, JsInt(1800000))} :
    \E timestamps \in TransferTimestampInputs(currentTime, schedulingTimeLimit) :
        LET r == [IdleProc EXCEPT !.op = "buildScheduleNativeTransferExtrinsic",
                                  !.address = address, !.providedID = 1,
                                  !.timestamps = timestamps, !.currentTime = currentTime,
                                  !.receivingAddress = receivingAddress, !.amount = amount]
            e == TransferValidation(timestamps, currentTime, amount, address, receivingAddress)
        IN  /\ Start(p, IF e # "ok" THEN Reject(r, e)
                        ELSE GetAPIClient([r EXCEPT !.secondTimestamps = convertToSeconds(timestamps)]))
            /\ UNCHANGED <<chain, schedulingTimeLimit, api, handles, pureVars>>

\* the cancel build with the validation of a transfer build kept, no amount
\* and no recipient being given to it
BuildCancelTaskExtrinsicValidated(p) ==
    \E address \in Addresses, providedID \in ProvidedIDs :
        LET r == [IdleProc EXCEPT !.op = "buildCancelTaskExtrinsic",
                                  !.address = address, !.providedID = providedID]
            e == validateTransferParams(0, address, "")
        IN  /\ Start(p, IF e # "ok" THEN Reject(r, e) ELSE GetAPIClient(r))
            /\ UNCHANGED <<chain, schedulingTimeLimit, api, handles, pureVars>>

\* buildCancelTaskExtrinsic up to its first await (scheduler.ts:240-241)
BuildCancelTaskExtrinsic(p) ==
    \E address \in Addresses, providedID \in ProvidedIDs :
        /\ Start(p, GetAPIClient([IdleProc EXCEPT !.op = "buildCancelTaskExtrinsic",
                                                  !.address = address, !.providedID = providedID]))
        /\ UNCHANGED <<chain, schedulingTimeLimit, api, handles, pureVars>>

\* getTaskID up to its first await (scheduler.ts:104-105)
GetTaskID(p) ==
    \E address \in {"addrA"}, providedID \in ProvidedIDs :
        /\ Start(p, GetAPIClient([IdleProc EXCEPT !.op = "getTaskID",
                                                  !.address = address, !.providedID = providedID]))
        /\ UNCHANGED <<chain, schedulingTimeLimit, api, handles, pureVars>>

\* sendExtrinsic up to its first await (scheduler.ts:147-152)
SendExtrinsic(p) ==
    \E extrinsicHex \in HexInputs, handleDispatch \in {"nil", "custom"} :
        /\ Start(p, GetAPIClient([IdleProc EXCEPT !.op = "sendExtrinsic",
                                                  !.extrinsicHex = extrinsicHex,
                                                  !.handleDispatch = handleDispatch]))
        /\ UNCHANGED <<chain, schedulingTimeLimit, api, handles, pureVars>>

\* ApiPromise.create resolves (scheduler.ts:32): this.api is assigned the new
\* instance, which getAPIClient returns, and the call goes on with it
Connected(p) ==
    /\ proc[p].pc = "connecting"
    /\ handles' = handles + 1
    /\ api' = handles + 1
    /\ proc' = [proc EXCEPT ![p] = WithClient([proc[p] EXCEPT !.polkadotApi = handles + 1])]
    /\ UNCHANGED <<chain, schedulingTimeLimit, calls, pureVars>>

\* ApiPromise.create rejects: the call fails, this.api stays as it is
ConnectFailed(p) ==
    /\ proc[p].pc = "connecting"
    /\ proc' = [proc EXCEPT ![p] = Reject(@, "ConnectionError")]
    /\ UNCHANGED <<chain, schedulingTimeLimit, api, handles, calls, pureVars>>

\* the extrinsic a builder assembles (scheduler.ts:189, 221-226, 242) and
\* signs for `address` with the next nonce of the account (nonce: -1)
BuiltExtrinsic(r) ==
    CASE r.op = "buildScheduleNotifyExtrinsic" ->
            [NoExtrinsic EXCEPT !.method = "scheduleNotifyTask", !.providedID = r.providedID,
                                !.timestamps = r.secondTimestamps, !.message = "message",
                                !.address = r.address, !.nonce = -1]
      [] r.op = "buildScheduleNativeTransferExtrinsic" ->
            [NoExtrinsic EXCEPT !.method = "scheduleNativeTransferTask", !.providedID = r.providedID,
                                !.timestamps = r.secondTimestamps,
                                !.receivingAddress = r.receivingAddress, !.amount = r.amount,
                                !.address = r.address, !.nonce = -1]
      [] r.op = "buildCancelTaskExtrinsic" ->
            [NoExtrinsic EXCEPT !.method = "cancelTask", !.providedID = r.providedID,
                                !.address = r.address, !.nonce = -1]

\* signAsync resolves: the builder returns signedExtrinsic.toHex()
\* (scheduler.ts:194, 231, 247)
Signed(p) ==
    /\ proc[p].pc = "signing"
    /\ proc' = [proc EXCEPT ![p] = [@ EXCEPT !.pc = "done",
                                               !.signedExtrinsic = BuiltExtrinsic(proc[p])]]
    /\ UNCHANGED <<chain, schedulingTimeLimit, api, handles, calls, pureVars>>

\* signAsync rejects (the signer refuses, or the nonce query fails)
SignFailed(p) ==
    /\ proc[p].pc = "signing"
    /\ proc' = [proc EXCEPT ![p] = Reject(@, "SigningError")]
    /\ UNCHANGED <<chain, schedulingTimeLimit, api, handles, calls, pureVars>>

\* generateTaskId resolves: getTaskID returns taskIdCodec.toString() (scheduler.ts:108)
TaskIdReturned(p) ==
    /\ proc[p].pc = "rpc"
    /\ proc' = [proc EXCEPT ![p] = [@ EXCEPT !.pc = "done", !.taskId = 100 + proc[p].providedID]]
    /\ UNCHANGED <<chain, schedulingTimeLimit, api, handles, calls, pureVars>>

\* generateTaskId rejects
TaskIdFailed(p) ==
    /\ proc[p].pc = "rpc"
    /\ proc' = [proc EXCEPT ![p] = Reject(@, "RpcError")]
    /\ UNCHANGED <<chain, schedulingTimeLimit, api, handles, calls, pureVars>>

\* the caller has its result (or its error) and may call again
Return(p) ==
    /\ proc[p].pc = "done"
    /\ proc[p].cb \in {"none", "done", "threw"}
    /\ proc' = [proc EXCEPT ![p] = IdleProc]
    /\ UNCHANGED <<chain, schedulingTimeLimit, api, handles, calls, pureVars>>

InitPureIdle ==
    /\ vpc = "none"
    /\ vin = PureIdle
    /\ vout = PureNone

\* the builders and getTaskID on one client
InitBuild == InitClient /\ InitPureIdle
NextBuild ==
    \E p \in Procs :
        \/ BuildScheduleNotifyExtrinsic(p)
        \/ BuildScheduleNativeTransferExtrinsic(p)
        \/ BuildCancelTaskExtrinsic(p)
        \/ GetTaskID(p)
        \/ Connected(p)
        \/ ConnectFailed(p)
        \/ Signed(p)
        \/ SignFailed(p)
        \/ TaskIdReturned(p)
        \/ TaskIdFailed(p)
        \/ Return(p)
SpecBuild == InitBuild /\ [][NextBuild]_vars

---------------------------------------------------------------------------
\* defaultErrorHandler (scheduler.ts:65-82)

\* the console lines
StatusLine(result) == <<"Tx status", result.type>>
ModuleErrorLine == <<"Transaction finalized with error by blockchain", "docs, name, section">>
RawErrorLine == <<"Transaction finalized with error by blockchain", "dispatchError.toString()">>

\* whether the handler goes to the metadata registry (scheduler.ts:67-69)
NeedsMetaError(result) ==
    /\ result.type = "Finalized"
    /\ result.dispatchError # "nil"
    /\ result.dispatchError = "module"

\* defaultErrorHandler up to its await, or to its end when it has none: the
\* status line is printed; a finalized module error needs the client
\* (getAPIClient, scheduler.ts:70), any other finalized error is printed as it is
DefaultErrorHandler(r, result) ==
    LET r1 == [r EXCEPT !.log = Append(@, StatusLine(result))]
    IN  IF NeedsMetaError(result)
        THEN IF api = 0
             THEN [r1 EXCEPT !.cb = "connecting", !.io = @ \cup {"connect"}]
             ELSE [r1 EXCEPT !.cb = "awaitApi"]
        ELSE IF result.type = "Finalized" /\ result.dispatchError # "nil"
             THEN [r1 EXCEPT !.cb = "done", !.log = Append(@, RawErrorLine)]
             ELSE [r1 EXCEPT !.cb = "done"]

\* a call of defaultErrorHandler by the user of the client is over when the
\* handler is: its promise resolves, or rejects with what the handler threw
Settle(r) ==
    IF r.op = "defaultErrorHandler" /\ r.cb \in {"done", "threw"}
    THEN [r EXCEPT !.pc = "done", !.err = r.cbErr]
    ELSE r

\* defaultErrorHandler called by the user of the client with a status event
CallDefaultErrorHandler(p) ==
    \E result \in Events :
        /\ Start(p, Settle(DefaultErrorHandler(
                        [IdleProc EXCEPT !.op = "defaultErrorHandler", !.pc = "classifying",
                                         !.result = result, !.events = <<result>>], result)))
        /\ UNCHANGED <<chain, schedulingTimeLimit, api, handles, pureVars>>

\* ApiPromise.create, started by the handler, resolves: this.api is assigned
HandlerConnected(p) ==
    /\ proc[p].cb = "connecting"
    /\ handles' = handles + 1
    /\ api' = handles + 1
    /\ proc' = [proc EXCEPT ![p] = [@ EXCEPT !.cb = "awaitApi"]]
    /\ UNCHANGED <<chain, schedulingTimeLimit, calls, pureVars>>

\* ApiPromise.create, started by the handler, rejects: the handler throws
HandlerConnectFailed(p) ==
    /\ proc[p].cb = "connecting"
    /\ proc' = [proc EXCEPT ![p] = Settle([@ EXCEPT !.cb = "threw", !.cbErr = "ConnectionError"])]
    /\ UNCHANGED <<chain, schedulingTimeLimit, api, handles, calls, pureVars>>

\* the handler after its await, api.registry.findMetaError returning the
\* error's docs, name and section, which are printed (scheduler.ts:71-75)
MetaErrorFound(p) ==
    /\ proc[p].cb = "awaitApi"
    /\ proc' = [proc EXCEPT ![p] = Settle([@ EXCEPT !.cb = "done",
                                                    !.log = Append(@, ModuleErrorLine)])]
    /\ UNCHANGED <<chain, schedulingTimeLimit, api, handles, calls, pureVars>>

\* the handler after its await, api.registry.findMetaError throwing (the
\* registry holds no error of that index): nothing catches it
MetaErrorThrows(p) ==
    /\ proc[p].cb = "awaitApi"
    /\ proc' = [proc EXCEPT ![p] = Settle([@ EXCEPT !.cb = "threw", !.cbErr = "MetaError"])]
    /\ UNCHANGED <<chain, schedulingTimeLimit, api, handles, calls, pureVars>>

---------------------------------------------------------------------------
\* sendExtrinsic after it has the client (scheduler.ts:153-164)

\* the callback giving the event to the caller's handler and to the default
\* handler as well
StatusCallbackBoth(r, result) ==
    LET r1 == [r EXCEPT !.events = Append(@, result)]
    IN  IF r.handleDispatch = "nil"
        THEN DefaultErrorHandler([r1 EXCEPT !.log = Append(@, <<"Using default error handler">>)],
                                 result)
        ELSE DefaultErrorHandler([r1 EXCEPT !.log = Append(@, <<"Using custom error handler">>),
                                            !.seen = Append(@, result)],
                                 result)

\* the callback given to txObject.send, up to its await (scheduler.ts:154-162)
StatusCallback(r, result) ==
    LET r1 == [r EXCEPT !.events = Append(@, result)]
    IN  IF r.handleDispatch = "nil"
        THEN DefaultErrorHandler([r1 EXCEPT !.log = Append(@, <<"Using default error handler">>)],
                                 result)
        ELSE [r1 EXCEPT !.log = Append(@, <<"Using custom error handler">>),
                        !.seen = Append(@, result), !.cb = "custom"]

\* The chain gives the submitted transaction its next status (it may skip
\* some).  The promise of txObject.send resolves, with the unsubscribe
\* function, when the first status arrives: that status is given to the
\* callback, and the rest of sendExtrinsic is queued as a microtask, which
\* runs before the next status can arrive.  A status that arrives after the
\* subscription was closed reaches nobody; of those only the finalization is
\* kept, in chainStatus.
ChainStatus(p) ==
    \E result \in Events :
        /\ proc[p].op = "sendExtrinsic"
        /\ proc[p].sub # "none"
        /\ proc[p].err = "none"
        /\ proc[p].pc \in {"subscribing", "done"}
        /\ StatusRank(result.type) > StatusRank(proc[p].chainStatus.type)
        /\ proc[p].sub = "closed" => result.type = "Finalized"
        /\ proc' = [proc EXCEPT ![p] =
                        IF proc[p].sub = "open"
                        THEN StatusCallback([@ EXCEPT !.chainStatus = result, !.pc = "resolved"],
                                            result)
                        ELSE [@ EXCEPT !.chainStatus = result]]
        /\ UNCHANGED <<chain, schedulingTimeLimit, api, handles, calls, pureVars>>

\* sendExtrinsic returning the hash without calling unsub()
UnsubscribeLeaks(p) ==
    /\ proc[p].op = "sendExtrinsic"
    /\ proc[p].pc = "resolved"
    /\ proc' = [proc EXCEPT ![p] = [@ EXCEPT !.pc = "done",
                                             !.hash = TxHash(proc[p].extrinsicHex)]]
    /\ UNCHANGED <<chain, schedulingTimeLimit, api, handles, calls, pureVars>>

\* sendExtrinsic raising the dispatch error of a finalized event
UnsubscribeRaises(p) ==
    /\ proc[p].op = "sendExtrinsic"
    /\ proc[p].pc = "resolved"
    /\ proc' = [proc EXCEPT ![p] =
                    IF proc[p].chainStatus.type = "Finalized"
                        /\ proc[p].chainStatus.dispatchError # "nil"
                    THEN Reject([@ EXCEPT !.sub = "closed"], "DispatchError")
                    ELSE [@ EXCEPT !.sub = "closed", !.pc = "done",
                                   !.hash = TxHash(proc[p].extrinsicHex)]]
    /\ UNCHANGED <<chain, schedulingTimeLimit, api, handles, calls, pureVars>>

\* sendExtrinsic calling unsub() only when the event it has is the finalization
UnsubscribeOnFinal(p) ==
    /\ proc[p].op = "sendExtrinsic"
    /\ proc[p].pc = "resolved"
    /\ proc' = [proc EXCEPT ![p] =
                    IF proc[p].chainStatus.type = "Finalized"
                    THEN [@ EXCEPT !.sub = "closed", !.pc = "done",
                                   !.hash = TxHash(proc[p].extrinsicHex)]
                    ELSE [@ EXCEPT !.pc = "done", !.hash = TxHash(proc[p].extrinsicHex)]]
    /\ UNCHANGED <<chain, schedulingTimeLimit, api, handles, calls, pureVars>>

\* unsub() and return txObject.hash.toString() (scheduler.ts:163-164)
Unsubscribe(p) ==
    /\ proc[p].op = "sendExtrinsic"
    /\ proc[p].pc = "resolved"
    /\ proc' = [proc EXCEPT ![p] = [@ EXCEPT !.sub = "closed", !.pc = "done",
                                             !.hash = TxHash(proc[p].extrinsicHex)]]
    /\ UNCHANGED <<chain, schedulingTimeLimit, api, handles, calls, pureVars>>

\* the submission fails before any status arrives: the status stream ends
\* with the error and the promise of txObject.send rejects
SendRejected(p) ==
    /\ proc[p].op = "sendExtrinsic"
    /\ proc[p].pc = "subscribing"
    /\ proc' = [proc EXCEPT ![p] = Reject([@ EXCEPT !.sub = "closed"], "RpcError")]
    /\ UNCHANGED <<chain, schedulingTimeLimit, api, handles, calls, pureVars>>

\* handleDispatch, the caller's code, returns
CustomHandlerReturns(p) ==
    /\ proc[p].cb = "custom"
    /\ proc' = [proc EXCEPT ![p] = [@ EXCEPT !.cb = "done"]]
    /\ UNCHANGED <<chain, schedulingTimeLimit, api, handles, calls, pureVars>>

\* handleDispatch, the caller's code, throws: the promise of the callback
\* rejects, and sendExtrinsic does not wait for it
CustomHandlerThrows(p) ==
    /\ proc[p].cb = "custom"
    /\ proc' = [proc EXCEPT ![p] = [@ EXCEPT !.cb = "threw", !.cbErr = "HandlerError"]]
    /\ UNCHANGED <<chain, schedulingTimeLimit, api, handles, calls, pureVars>>

\* sendExtrinsic and defaultErrorHandler on one client
InitSend == InitClient /\ InitPureIdle
NextSend ==
    \E p \in Procs :
        \/ SendExtrinsic(p)
        \/ CallDefaultErrorHandler(p)
        \/ Connected(p)
        \/ ConnectFailed(p)
        \/ ChainStatus(p)
        \/ Unsubscribe(p)
        \/ SendRejected(p)
        \/ HandlerConnected(p)
        \/ HandlerConnectFailed(p)
        \/ MetaErrorFound(p)
        \/ MetaErrorThrows(p)
        \/ CustomHandlerReturns(p)
        \/ CustomHandlerThrows(p)
        \/ Return(p)
SpecSend == InitSend /\ [][NextSend]_vars

---------------------------------------------------------------------------
\* The pure methods called on their own: validateTimestamps followed by
\* convertToSeconds (as the schedule builders call them), convertToSeconds
\* alone, and validateTransferParams

InitPure ==
    /\ InitClient
    /\ vpc = "called"
    /\ vout = PureNone
    /\ \/ \E currentTime \in NowValues :
          \E timestamps \in TimestampInputs(currentTime, schedulingTimeLimit) :
              vin = [PureIdle EXCEPT !.method = "timestamps", !.timestamps = timestamps,
                                     !.currentTime = currentTime]
       \/ \E amount \in Amounts, sendingAddress \in Addresses, receivingAddress \in Addresses :
              vin = [PureIdle EXCEPT !.method = "transfer", !.amount = amount,
                                     !.sendingAddress = sendingAddress,
                                     !.receivingAddress = receivingAddress]

\* this.validateTimestamps(timestamps)
ValidateTimestampsCall ==
    /\ vpc = "called"
    /\ vin.method = "timestamps"
    /\ vout' = [vout EXCEPT !.error = validateTimestamps(vin.timestamps, vin.currentTime,
                                                         schedulingTimeLimit)]
    /\ vpc' = "validated"
    /\ UNCHANGED <<vin, clientVars>>

\* this.convertToSeconds(timestamps), of timestamps validated or not
ConvertToSecondsCall ==
    /\ vpc \in {"called", "validated"}
    /\ vin.method = "timestamps"
    /\ vout' = [vout EXCEPT !.seconds = convertToSeconds(vin.timestamps)]
    /\ vpc' = "converted"
    /\ UNCHANGED <<vin, clientVars>>

\* this.validateTransferParams(amount, sendingAddress, receivingAddress)
ValidateTransferParamsCall ==
    /\ vpc = "called"
    /\ vin.method = "transfer"
    /\ vout' = [vout EXCEPT !.error = validateTransferParams(vin.amount, vin.sendingAddress,
                                                             vin.receivingAddress)]
    /\ vpc' = "validated"
    /\ UNCHANGED <<vin, clientVars>>

NextPure ==
    \/ ValidateTimestampsCall
    \/ ConvertToSecondsCall
    \/ ValidateTransferParamsCall
SpecPure == InitPure /\ [][NextPure]_vars

---------------------------------------------------------------------------
\* Properties

ScheduleBuilders == {"buildScheduleNotifyExtrinsic", "buildScheduleNativeTransferExtrinsic"}
TimestampErrors == {"TooManyTasks", "TimestampInPast", "NotHourAligned", "TooFarInFuture"}
TransferErrors == {"AmountTooLow", "SelfTransferNotAllowed"}

\* the validation error the arguments of a schedule build call for, or "ok"
ArgumentError(r) ==
    LET t == validateTimestamps(r.timestamps, r.currentTime, schedulingTimeLimit)
        a == validateTransferParams(r.amount, r.address, r.receivingAddress)
    IN  IF t # "ok" THEN t
        ELSE IF r.op = "buildScheduleNativeTransferExtrinsic" THEN a
        ELSE "ok"

\* C1: a schedule build whose arguments fail validation ends with the
\* validation error and has not started a connection, issued an RPC or called
\* the signer; the step that starts it leaves this.api, and the number of
\* connections made, as they were.
C1_ValidationBeforeNetwork ==
    /\ [](\A p \in Procs :
            (proc[p].op \in ScheduleBuilders /\ ArgumentError(proc[p]) # "ok")
                => /\ proc[p].pc = "done"
                   /\ proc[p].err = ArgumentError(proc[p])
                   /\ proc[p].err \in TimestampErrors \cup TransferErrors
                   /\ proc[p].io = {}
                   /\ proc[p].polkadotApi = 0
                   /\ proc[p].signedExtrinsic = NoExtrinsic)
    /\ [][\A p \in Procs :
            (proc[p].pc = "idle" /\ proc'[p].op \in ScheduleBuilders
                /\ ArgumentError(proc'[p]) # "ok")
                => api' = api /\ handles' = handles]_vars

\* C1 witness: a transfer build is refused for its amount, having done
\* nothing outside the client, while another build holds the connection
C1_Witness ==
    \E p \in Procs, q \in Procs :
        /\ proc[p].op = "buildScheduleNativeTransferExtrinsic"
        /\ proc[p].pc = "done"
        /\ proc[p].err = "AmountTooLow"
        /\ proc[p].address # proc[p].receivingAddress
        /\ proc[p].io = {}
        /\ proc[q].op = "buildScheduleNotifyExtrinsic"
        /\ proc[q].pc = "signing"
        /\ api # 0 /\ proc[q].polkadotApi = api

\* the ScheduleRequest invariant, in seconds, of timestamps carried by an
\* extrinsic built at currentTime (milliseconds)
ScheduleInvariant(seconds, currentTime) ==
    /\ Len(seconds) <= RECURRING_TASK_LIMIT
    /\ \A i \in 1..Len(seconds) :
        /\ JsIsInteger(seconds[i])
        /\ JsIsMultiple(seconds[i], SEC_IN_MIN * MIN_IN_HOUR)
        /\ ~JsLT(seconds[i], NextFullHour(currentTime))
        /\ ~JsGT(seconds[i], JsDiv1000(JsAdd(currentTime, schedulingTimeLimit)))

\* C2: the timestamps carried by every extrinsic a schedule build returns
\* satisfy the ScheduleRequest invariant in seconds.
C2_BuiltScheduleAdmissible ==
    \A p \in Procs :
        (proc[p].op \in ScheduleBuilders /\ proc[p].signedExtrinsic # NoExtrinsic)
            => ScheduleInvariant(proc[p].signedExtrinsic.timestamps, proc[p].currentTime)

\* C3: the connection is made at most once, every call uses the handle the
\* client holds, and a handle once set is never replaced.
C3_SingleConnection ==
    /\ handles <= 1
    /\ \A p \in Procs : proc[p].polkadotApi \in {0, api}

\* C4: a sendExtrinsic call that has returned or failed has no status
\* subscription open.
C4_SubscriptionReleased ==
    \A p \in Procs :
        (proc[p].op = "sendExtrinsic" /\ proc[p].pc = "done") => proc[p].sub # "open"

\* C4 witness: one submit has returned with its subscription closed, its
\* status handler having thrown, while the subscription of another is open
C4_Witness ==
    \E p \in Procs, q \in Procs :
        /\ proc[p].op = "sendExtrinsic" /\ proc[p].pc = "done"
        /\ proc[p].sub = "closed" /\ proc[p].cb = "threw" /\ Len(proc[p].events) = 1
        /\ proc[q].op = "sendExtrinsic" /\ proc[q].sub = "open"

TerminalLogged(r) ==
    \E i \in 1..Len(r.log) : r.log[i] = <<"Tx status", "Finalized">>

\* C6: when a transaction sent without a handler has been finalized by the
\* chain, and the call and its classifier have come to rest, the terminal
\* outcome has been logged.
C6_TerminalOutcomeLogged ==
    \A p \in Procs :
        (proc[p].op = "sendExtrinsic" /\ proc[p].handleDispatch = "nil"
            /\ proc[p].chainStatus.type = "Finalized"
            /\ proc[p].pc = "done" /\ proc[p].sub = "closed"
            /\ proc[p].cb \in {"done", "threw"})
            => TerminalLogged(proc[p])

\* the default classifier is the interpreter of the events of this call
DefaultClassified(r) ==
    \/ r.op = "defaultErrorHandler"
    \/ r.op = "sendExtrinsic" /\ r.handleDispatch = "nil"

\* C7: the default classifier never throws.
C7_ClassifierNeverThrows ==
    \A p \in Procs : DefaultClassified(proc[p]) => proc[p].cb # "threw"

\* what the default classifier is to print for one event: the status, and
\* for a finalized event with a dispatch error, the error
ExpectedLines(result) ==
    IF result.type # "Finalized" \/ result.dispatchError = "nil"
    THEN <<StatusLine(result)>>
    ELSE IF result.dispatchError = "module"
    THEN <<StatusLine(result), ModuleErrorLine>>
    ELSE <<StatusLine(result), RawErrorLine>>

\* the lines the classifier printed (without the line of the callback)
ClassifierLines(r) ==
    IF r.op = "sendExtrinsic" THEN Tail(r.log) ELSE r.log

\* C8: once the default classifier is over for an event, it has printed the
\* status, and for a Finalized event exactly the outcome of that event:
\* nothing more without a dispatch error, the decoded module error, or the
\* stringified error otherwise.
C8_ClassifierOutcome ==
    \A p \in Procs :
        (DefaultClassified(proc[p]) /\ proc[p].cb \in {"done", "threw"}
            /\ Len(proc[p].events) = 1)
            => ClassifierLines(proc[p]) = ExpectedLines(proc[p].events[1])

\* C9: validateTimestamps fails with TooManyTasks exactly for the sequences of
\* more than 24 timestamps, whatever the timestamps are.
C9_TooManyTasks ==
    (vin.method = "timestamps" /\ vpc # "called" /\ vout.error # "none")
        => (vout.error = "TooManyTasks" <=> Len(vin.timestamps) > 24)

\* C9 witness: 25 timestamps, the first of them in the past, are refused for
\* their number
C9_Witness ==
    /\ vin.method = "timestamps" /\ vpc = "validated"
    /\ Len(vin.timestamps) = 25
    /\ JsLT(vin.timestamps[1], JsDiv1000(vin.currentTime))
    /\ vout.error = "TooManyTasks"

\* the lowest index of a timestamp below the hour nh with no timestamp before
\* it misaligned or beyond currentTime + schedulingTimeLimit; 0 if none
FirstPast(timestamps, nh, currentTime) ==
    LET past == { i \in 1..Len(timestamps) :
                    /\ JsLT(timestamps[i], nh)
                    /\ \A j \in 1..(i - 1) :
                        /\ ~JsLT(timestamps[j], nh)
                        /\ JsIsMultiple(timestamps[j], SEC_IN_MIN * MIN_IN_HOUR)
                        /\ ~JsGT(timestamps[j], JsAdd(currentTime, schedulingTimeLimit)) }
    IN  IF past = {} THEN 0 ELSE CHOOSE i \in past : TRUE

\* TimestampInPast is the error exactly when a timestamp below nh comes first
PastRule(nh) ==
    (vin.method = "timestamps" /\ vpc = "validated"
        /\ Len(vin.timestamps) <= RECURRING_TASK_LIMIT)
        => (vout.error = "TimestampInPast"
                <=> FirstPast(vin.timestamps, nh, vin.currentTime) # 0)

\* C10 as claimed: nextHour is the smallest hour-aligned instant at or after
\* the current time, the timestamps below it are refused as past, and one
\* equal to it is not.
C10_Claimed == PastRule(NextFullHour(vin.currentTime))

\* the hour of currentTime (milliseconds) rounded down, plus one hour, in
\* seconds: the smallest hour-aligned instant strictly after currentTime
HourAfter(currentTime) ==
    LET floorHour == JsSub(JsDiv1000(currentTime),
                           JsMod(JsDiv1000(currentTime), SEC_IN_MIN * MIN_IN_HOUR))
    IN  JsAdd(floorHour, HourSec)

\* C10 amended: nextHour is the smallest hour-aligned instant strictly after
\* the current time; of at most 24 timestamps the first to break a rule is
\* refused as past exactly when it is below nextHour, and one equal to
\* nextHour is not refused as past.
C10_PastBelowHourAfter == PastRule(HourAfter(vin.currentTime))

\* C10 witness: the current time is on an hour boundary and a timestamp equal
\* to it is refused as past, one an hour later is accepted
C10_Witness ==
    /\ vin.method = "timestamps" /\ vpc = "validated"
    /\ JsIsMultiple(vin.currentTime, SEC_IN_MIN * MIN_IN_HOUR * MS_IN_SEC)
    /\ Len(vin.timestamps) = 2
    /\ vin.timestamps[1] = JsAdd(JsDiv1000(vin.currentTime), HourSec)
    /\ vin.timestamps[2] = JsDiv1000(vin.currentTime)
    /\ vout.error = "TimestampInPast"


\* the timestamps were validated: at most 24 of them, so that the rules on
\* each timestamp decide
Validated ==
    /\ vin.method = "timestamps" /\ vpc = "validated"
    /\ Len(vin.timestamps) <= RECURRING_TASK_LIMIT

\* a timestamp given in seconds (not above the unit threshold)
InSeconds(timestamp) == ~JsGT(timestamp, [th |-> 100000000, u |-> 0, m |-> 0])

\* C11: of timestamps given in seconds, at or after nextHour and aligned,
\* validation fails with TooFarInFuture exactly when one of them is beyond
\* now + schedulingHorizon taken in seconds, the boundary itself passing.
C11_HorizonInSeconds ==
    (Validated /\ \A i \in 1..Len(vin.timestamps) :
                    /\ InSeconds(vin.timestamps[i])
                    /\ ~JsLT(vin.timestamps[i], HourAfter(vin.currentTime))
                    /\ JsIsMultiple(vin.timestamps[i], SEC_IN_MIN * MIN_IN_HOUR))
        => (vout.error = "TooFarInFuture"
                <=> \E i \in 1..Len(vin.timestamps) :
                        JsGT(vin.timestamps[i],
                             JsDiv1000(JsAdd(vin.currentTime, schedulingTimeLimit))))

\* a timestamp breaks one of the three rules on a timestamp, as numbers:
\* below nh, not a multiple of 3600, above currentTime + schedulingTimeLimit
BreaksRule(timestamp, nh, currentTime) ==
    \/ JsLT(timestamp, nh)
    \/ ~JsIsMultiple(timestamp, SEC_IN_MIN * MIN_IN_HOUR)
    \/ JsGT(timestamp, JsAdd(currentTime, schedulingTimeLimit))

\* the lowest index of a timestamp that breaks a rule; 0 if none does
FirstBreaking(timestamps, nh, currentTime) ==
    LET bad == { i \in 1..Len(timestamps) : BreaksRule(timestamps[i], nh, currentTime) }
    IN  IF bad = {} THEN 0 ELSE CHOOSE i \in bad : \A j \in bad : i <= j

\* the rule a timestamp breaks first: in the past, then alignment, then horizon
RuleBroken(timestamp, nh, currentTime) ==
    IF JsLT(timestamp, nh) THEN "TimestampInPast"
    ELSE IF ~JsIsMultiple(timestamp, SEC_IN_MIN * MIN_IN_HOUR) THEN "NotHourAligned"
    ELSE IF JsGT(timestamp, JsAdd(currentTime, schedulingTimeLimit)) THEN "TooFarInFuture"
    ELSE "ok"

\* C12 as claimed: at most 24 timestamps, one of them not divisible by 3600,
\* are refused with NotHourAligned.
C12_Claimed ==
    (Validated /\ \E i \in 1..Len(vin.timestamps) :
                    ~JsIsMultiple(vin.timestamps[i], SEC_IN_MIN * MIN_IN_HOUR))
        => vout.error = "NotHourAligned"

\* C12 amended: at most 24 timestamps, one of them not divisible by 3600, are
\* refused; the error is NotHourAligned exactly when the first timestamp to
\* break a rule is at or after nextHour and not divisible by 3600.
C12_MisalignedRefused ==
    Validated =>
        LET nh == HourAfter(vin.currentTime)
            f == FirstBreaking(vin.timestamps, nh, vin.currentTime)
        IN  /\ (\E i \in 1..Len(vin.timestamps) :
                    ~JsIsMultiple(vin.timestamps[i], SEC_IN_MIN * MIN_IN_HOUR))
                => vout.error \in {"NotHourAligned", "TimestampInPast", "TooFarInFuture"}
            /\ vout.error = "NotHourAligned"
                <=> /\ f # 0
                    /\ ~JsLT(vin.timestamps[f], nh)
                    /\ ~JsIsMultiple(vin.timestamps[f], SEC_IN_MIN * MIN_IN_HOUR)

\* C12 witness: one timestamp a second before nextHour is refused as past,
\* not as misaligned
C12_Witness ==
    /\ Validated
    /\ vin.timestamps = <<JsSub(HourAfter(vin.currentTime), JsInt(1))>>
    /\ vout.error = "TimestampInPast"

TransferValidated == vin.method = "transfer" /\ vpc = "validated"

\* C14 as claimed: AmountTooLow for every amount below the minimum,
\* SelfTransferNotAllowed whenever sender is recipient, whatever the amount,
\* success exactly otherwise.
C14_Claimed ==
    TransferValidated =>
        /\ vin.amount < LOWEST_TRANSFERRABLE_AMOUNT => vout.error = "AmountTooLow"
        /\ vin.sendingAddress = vin.receivingAddress => vout.error = "SelfTransferNotAllowed"
        /\ vout.error = "ok" <=> /\ vin.amount >= LOWEST_TRANSFERRABLE_AMOUNT
                                 /\ vin.sendingAddress # vin.receivingAddress

\* C14 amended: AmountTooLow for every amount below the minimum, whatever the
\* addresses; SelfTransferNotAllowed when sender is recipient and the amount
\* is at least the minimum; success exactly otherwise.
C14_AmountFirst ==
    TransferValidated =>
        /\ vin.amount < LOWEST_TRANSFERRABLE_AMOUNT => vout.error = "AmountTooLow"
        /\ (vin.sendingAddress = vin.receivingAddress
                /\ vin.amount >= LOWEST_TRANSFERRABLE_AMOUNT)
            => vout.error = "SelfTransferNotAllowed"
        /\ vout.error = "ok" <=> /\ vin.amount >= LOWEST_TRANSFERRABLE_AMOUNT
                                 /\ vin.sendingAddress # vin.receivingAddress

\* C14 witness: a transfer to oneself of less than the minimum is refused for
\* its amount
C14_Witness ==
    /\ TransferValidated
    /\ vin.amount = LOWEST_TRANSFERRABLE_AMOUNT - 1
    /\ vin.sendingAddress = vin.receivingAddress
    /\ vout.error = "AmountTooLow"

\* C15: convertToSeconds returns as many values as it was given, in the same
\* order: a value above 100000000000 divided by 1000 (times 1000 it is the
\* value given), any other value, the threshold included, as it was; and the
\* client is as the constructor left it.
C15_ConvertToSeconds ==
    (vin.method = "timestamps" /\ vpc = "converted") =>
        /\ Len(vout.seconds) = Len(vin.timestamps)
        /\ \A i \in 1..Len(vin.timestamps) :
            LET t == vin.timestamps[i]
                c == vout.seconds[i]
            IN  IF JsGT(t, [th |-> 100000000, u |-> 0, m |-> 0])
                THEN [th |-> c.th * MS_IN_SEC + c.u, u |-> c.m, m |-> 0] = t
                ELSE c = t
        /\ api = 0 /\ handles = 0 /\ calls = 0
        /\ schedulingTimeLimit = OakChainSchedulingLimit(chain)
        /\ \A p \in Procs : proc[p] = IdleProc

\* C15 witness: the threshold itself is returned as it was, and the value 800
\* above it divided by 1000
C15_Witness ==
    /\ vin.method = "timestamps" /\ vpc = "converted"
    /\ vin.timestamps = <<[th |-> 100000000, u |-> 0, m |-> 0],
                          [th |-> 100000000, u |-> 800, m |-> 0]>>
    /\ vout.seconds = <<[th |-> 100000000, u |-> 0, m |-> 0],
                        [th |-> 100000, u |-> 0, m |-> 800]>>


\* C16: a sendExtrinsic call gives at most one status event to its callback,
\* the first the chain emits for the transaction; once the subscription is
\* closed no event reaches the caller's handler or the default handler.
C16_OnlyFirstEventDelivered ==
    /\ [](\A p \in Procs : proc[p].op = "sendExtrinsic" => Len(proc[p].events) <= 1)
    /\ [][\A p \in Procs :
            (proc[p].op = "sendExtrinsic" /\ proc'[p].op = "sendExtrinsic")
                => /\ proc'[p].events # proc[p].events
                        => /\ proc[p].chainStatus = NoEvent
                           /\ proc[p].sub = "open"
                           /\ proc'[p].events = <<proc'[p].chainStatus>>
                   /\ proc[p].sub = "closed"
                        => /\ proc'[p].events = proc[p].events
                           /\ proc'[p].seen = proc[p].seen]_vars

\* C16 witness: the caller's handler was given the inclusion in a block, the
\* subscription was closed, and the finalization that followed reached nobody
C16_Witness ==
    \E p \in Procs :
        /\ proc[p].op = "sendExtrinsic" /\ proc[p].handleDispatch = "custom"
        /\ proc[p].sub = "closed" /\ proc[p].pc = "done"
        /\ proc[p].events = <<[type |-> "InBlock", dispatchError |-> "nil"]>>
        /\ proc[p].seen = proc[p].events
        /\ proc[p].chainStatus = [type |-> "Finalized", dispatchError |-> "module"]

\* the lines of a console whose first word is `head`
LinesOf(log, head) ==
    LET Is(line) == line[1] = head
    IN  SelectSeq(log, Is)

\* C17: each status event given to the callback of sendExtrinsic goes to one
\* interpreter.  With a handler supplied the handler has seen every event and
\* the default handler has printed nothing and awaits nothing; with none the
\* default handler has printed the status of every event and no code of the
\* caller has run.
C17_OneInterpreter ==
    \A p \in Procs :
        proc[p].op = "sendExtrinsic" =>
            IF proc[p].handleDispatch = "nil"
            THEN /\ proc[p].seen = <<>>
                 /\ proc[p].cb \notin {"custom"}
                 /\ Len(LinesOf(proc[p].log, "Using default error handler")) = Len(proc[p].events)
                 /\ LinesOf(proc[p].log, "Using custom error handler") = <<>>
                 /\ LinesOf(proc[p].log, "Tx status")
                        = [i \in 1..Len(proc[p].events) |-> StatusLine(proc[p].events[i])]
            ELSE /\ proc[p].seen = proc[p].events
                 /\ proc[p].cb \notin {"connecting", "awaitApi"}
                 /\ proc[p].log
                        = [i \in 1..Len(proc[p].events) |-> <<"Using custom error handler">>]

\* C17 witness: of two submissions that were each given the finalization with
\* a module error, the one with a handler left it to the handler, the other
\* to the default handler
C17_Witness ==
    \E p \in Procs, q \in Procs :
        /\ proc[p].op = "sendExtrinsic" /\ proc[p].handleDispatch = "custom"
        /\ proc[p].events = <<[type |-> "Finalized", dispatchError |-> "module"]>>
        /\ proc[p].seen = proc[p].events
        /\ proc[p].log = <<<<"Using custom error handler">>>>
        /\ proc[q].op = "sendExtrinsic" /\ proc[q].handleDispatch = "nil"
        /\ proc[q].events = <<[type |-> "Finalized", dispatchError |-> "module"]>>
        /\ proc[q].seen = <<>>
        /\ proc[q].log = <<<<"Using default error handler">>, <<"Tx status", "Finalized">>>>

\* C18: buildCancelTaskExtrinsic never fails with an error of validation: it
\* asks for the client at once, signs once it has it, and fails only when the
\* connection or the signing does.
C18_CancelUnvalidated ==
    \A p \in Procs :
        proc[p].op = "buildCancelTaskExtrinsic" =>
            /\ proc[p].err \notin TimestampErrors \cup TransferErrors
            /\ proc[p].err \in {"none", "ConnectionError", "RpcError", "SigningError"}
            /\ "connect" \in proc[p].io \/ proc[p].polkadotApi # 0
            /\ proc[p].err # "ConnectionError"
                => /\ proc[p].pc \in {"signing", "done"} <=> "sign" \in proc[p].io
                   /\ proc[p].pc \in {"signing", "done"} <=> proc[p].polkadotApi # 0
            /\ (proc[p].pc = "done" /\ proc[p].err = "none")
                => proc[p].signedExtrinsic
                     = [NoExtrinsic EXCEPT !.method = "cancelTask",
                                           !.providedID = proc[p].providedID,
                                           !.address = proc[p].address, !.nonce = -1]

\* C18 witness: one cancel build has returned its signed extrinsic, another
\* has failed at the signing
C18_Witness ==
    \E p \in Procs, q \in Procs :
        /\ proc[p].op = "buildCancelTaskExtrinsic" /\ proc[p].pc = "done"
        /\ proc[p].err = "none" /\ proc[p].signedExtrinsic.method = "cancelTask"
        /\ proc[p].address = "addrB" /\ proc[p].providedID = 2
        /\ proc[q].op = "buildCancelTaskExtrinsic" /\ proc[q].err = "SigningError"

===========================================================================
